---- MODULE Spec2Model ----
(***************************************************************************)
(* The foreground-application supervisor of MovePic/manager.py             *)
(* (class ApplicationManager): two supervised GUI programs, test1          *)
(* (PRIMARY) and movepic (IDLE), a switch lock, a restart policy and four  *)
(* watchdog threads.                                                       *)
(*                                                                         *)
(* Threads are modelled with one program counter each.  A step of a        *)
(* thread is the code between two blocking calls (a subprocess, a sleep,   *)
(* a lock acquisition).  Time is the wall clock `now`; it advances between *)
(* steps by the action Tick, so that a blocking call may take any time.    *)
(***************************************************************************)
EXTENDS Integers, FiniteSets, Sequences, TLC

(***************************************************************************)
(* Program constants.                                                      *)
(***************************************************************************)
TIMEOUT_SECONDS == 30
SWITCH_COOLDOWN == 3
STARTUP_PROTECTION == 5
MAX_RESTART_COUNT == 5
FULLSCREEN_TOLERANCE == 10
DEADZONE == 5
DEFAULT_WIDTH == 1024
DEFAULT_HEIGHT == 600
WAIT_TIMEOUT == 20
POLLS_PER_SECOND == 2

(***************************************************************************)
(* Bounds of the model.                                                    *)
(***************************************************************************)
MaxTime == 66
MaxFineTime == 40
MaxPid == 3
MaxKills == 1
MaxDelta == 11
MaxStartupTime == 10
MaxGpioPid == 7

None == 0
NoThread == "none"

Pids == 1 .. MaxPid

\* time.time() at construction: the epoch clock is far beyond the cooldown,
\* so the first switch request is never cooled down by last_switch_time = 0.
BootTime == SWITCH_COOLDOWN

Threads == {"main", "input", "signal", "timeout", "health"}
Switchers == {"input", "signal", "timeout"}

VARIABLES
    \* the wall clock read by time.time()
    now,
    \* fields of ApplicationManager
    is_running, last_activity_time, last_switch_time, start_time,
    current_program, test1_process, movepic_process,
    test1_last_pid, test1_last_window_id, switch_lock, test1_restart_count,
    \* threads: position, and the locals current_time of switch_to_*
    pc, current_time,
    \* the operating system: live processes, their windows, the signal file
    t1_alive, t1_windows, mp_alive, mp_windows, signal_file,
    \* external kills of test1 still to come (scenario budget)
    kills_left,
    \* history of the current burst of switch requests (each issued less than
    \* SWITCH_COOLDOWN after the one before): the time of the latest request,
    \* the pending requests that belong to the burst, how many requests it
    \* has (counted to 3) and how many of them performed a switch (to 2)
    last_issue, in_burst, burst_reqs, burst_perf,
    \* history: the time at which the last request that performed a switch
    \* read the clock under the lock
    perf_acq,
    \* history: how the latest switch request ended its checks
    sw_result,
    \* history: consecutive failed start-and-detect cycles of test1
    fail_streak,
    \* history: switch_to_test1 was requested for the latest appearance of
    \* the signal file
    sig_requested,
    \* the inputs and the result of one force_fullscreen call
    fs,
    \* the tool outputs and the result of one get_screen_resolution call
    res,
    \* the wait_for_window call of start_test1 in progress: the sleeps it
    \* has made, and its result once it has returned
    ww,
    \* the GPIO script: the handle and the live processes of the script, and
    \* the output-monitor threads, by their position
    gpio

fields == <<is_running, last_activity_time, last_switch_time, start_time,
            current_program, test1_process, movepic_process,
            test1_last_pid, test1_last_window_id, switch_lock,
            test1_restart_count>>
osvars == <<t1_alive, t1_windows, mp_alive, mp_windows, signal_file, kills_left>>
burstvars == <<last_issue, in_burst, burst_reqs, burst_perf, perf_acq,
              sw_result>>
vars == <<now, fields, pc, current_time, osvars, burstvars, fail_streak,
          sig_requested, fs, res, ww, gpio>>

(***************************************************************************)
(* Helpers.                                                                *)
(***************************************************************************)
Min(S) == CHOOSE x \in S : \A y \in S : x <= y

Abs(x) == IF x < 0 THEN -x ELSE x

\* find_window_id: the first window whose class matches, or None.  A window
\* is identified with the process that owns it.
find_window_id(windows) == IF windows = {} THEN None ELSE Min(windows)

\* The liveness test that looks at the handle only.
is_test1_alive_handle == test1_process # None

\* is_test1_alive: the handle exists and its process has not exited.
is_test1_alive == test1_process # None /\ test1_process \in t1_alive

\* The pid subprocess.Popen gives a new test1 process: one that is neither
\* alive nor still recorded anywhere.
FreshT1 == Pids \ (t1_alive \cup {test1_process, test1_last_pid, test1_last_window_id})
FreshMp == Pids \ {movepic_process}

\* Where a thread continues when the start_test1 / restart_test1 chain it
\* runs returns: __init__ goes on to start_monitors, the health watchdog to
\* its sleep, switch_to_test1 to "self.last_switch_time = current_time".
ChainReturn(t) == IF t = "main" THEN "init_monitors"
                  ELSE IF t = "health" THEN "h_poll"
                  ELSE "sw_done"

\* Where a watchdog thread continues when its switch request returns.
Home(t) == IF t = "input" THEN "in_listen"
           ELSE IF t = "signal" THEN "sg_poll"
           ELSE "to_sleep"

Goto(t, label) == pc' = [pc EXCEPT ![t] = label]

NoIssue == -1

(***************************************************************************)
(* The initial state: ApplicationManager.__init__ has assigned the fields  *)
(* and is about to call start_test1; no watchdog thread exists yet.        *)
(***************************************************************************)
FsIdle == [phase |-> "unused", win_width |-> 0, win_height |-> 0,
           screen_width |-> DEFAULT_WIDTH, screen_height |-> DEFAULT_HEIGHT,
           found |-> FALSE, geometry |-> "none", force |-> FALSE,
           cmd_fail |-> 0, result |-> FALSE, commands |-> 0]

\* current_program left unset until start_test1 assigns it.
InitFieldsUnset ==
    /\ is_running = TRUE
    /\ last_activity_time = BootTime
    /\ current_program = "unset"
    /\ movepic_process = None
    /\ test1_process = None
    /\ test1_last_pid = None
    /\ test1_last_window_id = None
    /\ switch_lock = NoThread
    /\ last_switch_time = 0
    /\ start_time = BootTime
    /\ test1_restart_count = 0

InitFields ==
    /\ is_running = TRUE
    /\ last_activity_time = BootTime
    /\ current_program = "test1"
    /\ movepic_process = None
    /\ test1_process = None
    /\ test1_last_pid = None
    /\ test1_last_window_id = None
    /\ switch_lock = NoThread
    /\ last_switch_time = 0
    /\ start_time = BootTime
    /\ test1_restart_count = 0

InitHistory ==
    /\ last_issue = NoIssue
    /\ in_burst = [t \in Switchers |-> FALSE]
    /\ burst_reqs = 0
    /\ burst_perf = 0
    /\ perf_acq = NoIssue
    /\ sw_result = "none"
    /\ fail_streak = 0
    /\ sig_requested = FALSE

InitSystem ==
    /\ now = BootTime
    /\ InitFields
    /\ pc = [t \in Threads |-> IF t = "main" THEN "st_begin" ELSE "off"]
    /\ current_time = [t \in Switchers |-> 0]
    /\ t1_alive = {} /\ t1_windows = {} /\ mp_alive = {} /\ mp_windows = {}
    /\ signal_file = FALSE
    /\ kills_left = MaxKills
    /\ InitHistory

\* Before __init__ calls start_gpio_script: no handle, no script process
\* and no monitor thread.
GpioIdle == [started |-> FALSE, handle |-> None, launched |-> 0,
             alive |-> {}, polling |-> 0, restarting |-> 0]

WaitIdle == [elapsed |-> 0, returned |-> FALSE, result |-> FALSE]

ResIdle == [phase |-> "unused", outputs |-> <<>>,
            width |-> DEFAULT_WIDTH, height |-> DEFAULT_HEIGHT]

Init ==
    /\ InitSystem
    /\ fs = FsIdle
    /\ res = ResIdle
    /\ ww = WaitIdle
    /\ gpio = GpioIdle

(***************************************************************************)
(* Process handles.                                                        *)
(***************************************************************************)
\* kill_processes_by_name: every process whose command line matches is
\* terminated (and killed if it does not exit in 2 s); its window goes.

\* stop_test1: with no handle nothing happens.  Otherwise the process group
\* is killed, the handle is dropped and the remnants are killed by name; but
\* when the process has exited and was reaped, os.getpgid raises, the
\* exception is logged, and the handle and the other processes stay.
stop_test1(force_kill) ==
    \/ /\ test1_process = None
       /\ UNCHANGED <<test1_process, t1_alive, t1_windows>>
    \/ /\ test1_process # None
       /\ test1_process' = None
       /\ t1_alive' = {}
       /\ t1_windows' = {}
    \/ /\ test1_process # None
       /\ force_kill
       /\ test1_process \notin t1_alive
       /\ UNCHANGED <<test1_process, t1_alive, t1_windows>>

\* The handle dropped without the process being killed.
stop_movepic_handle_only(force_kill) ==
    /\ movepic_process' = None
    /\ UNCHANGED <<mp_alive, mp_windows>>

\* stop_movepic, lines 214-230: as stop_test1, for movepic.
stop_movepic(force_kill) ==
    \/ /\ movepic_process = None
       /\ UNCHANGED <<movepic_process, mp_alive, mp_windows>>
    \/ /\ movepic_process # None
       /\ movepic_process' = None
       /\ mp_alive' = {}
       /\ mp_windows' = {}
    \/ /\ movepic_process # None
       /\ force_kill
       /\ movepic_process \notin mp_alive
       /\ UNCHANGED <<movepic_process, mp_alive, mp_windows>>

(***************************************************************************)
(* start_test1 and restart_test1.  restart_test1 ends by calling           *)
(* start_test1 and start_test1 returns right after calling restart_test1,  *)
(* so the chain is a loop in one thread; it returns to ChainReturn(t).     *)
(***************************************************************************)
\* History: one more start-and-detect cycle of __init__'s start_test1 failed
\* (counted up to the ceiling).
FailedCycle(t) == fail_streak' = IF t = "main" /\ fail_streak < MAX_RESTART_COUNT
                                 THEN fail_streak + 1 ELSE fail_streak

\* The counter left as it is on entry.
NoResetOnEntry == test1_restart_count

\* start_test1, lines 128-129: the counter is reset and remnants are killed.
ResetOnEntry == 0

start_test1_begin(t) ==
    /\ pc[t] = "st_begin"
    /\ test1_restart_count' = ResetOnEntry
    /\ t1_alive' = {}
    /\ t1_windows' = {}
    /\ Goto(t, "st_popen")
    /\ UNCHANGED <<now, is_running, last_activity_time, last_switch_time,
                   start_time, current_program, test1_process, movepic_process,
                   test1_last_pid, test1_last_window_id, switch_lock,
                   current_time, mp_alive, mp_windows, signal_file, kills_left,
                   burstvars, fail_streak, sig_requested, fs, res, ww, gpio>>

\* start_test1, lines 132-141: the launch either raises (the except clause
\* calls restart_test1) or yields a new process, which the handle refers to.
start_test1_popen(t) ==
    /\ pc[t] = "st_popen"
    /\ \/ /\ FreshT1 # {}
          /\ LET p == Min(FreshT1) IN
                /\ test1_process' = p
                /\ t1_alive' = t1_alive \cup {p}
          /\ Goto(t, "st_pid")
          /\ UNCHANGED fail_streak
       \/ /\ Goto(t, "rs_begin")
          /\ FailedCycle(t)
          /\ UNCHANGED <<test1_process, t1_alive>>
    /\ UNCHANGED <<now, is_running, last_activity_time, last_switch_time,
                   start_time, current_program, movepic_process,
                   test1_last_pid, test1_last_window_id, switch_lock,
                   test1_restart_count, current_time, t1_windows, mp_alive,
                   mp_windows, signal_file, kills_left, burstvars,
                   sig_requested, fs, res, ww, gpio>>

\* start_test1, line 142: the pid of the process the handle refers to now is
\* recorded; a handle that another thread has dropped (AttributeError)
\* leads to restart_test1.
start_test1_pid(t) ==
    /\ pc[t] = "st_pid"
    /\ IF test1_process = None
       THEN /\ Goto(t, "rs_begin")
            /\ FailedCycle(t)
            /\ UNCHANGED test1_last_pid
       ELSE /\ test1_last_pid' = test1_process
            /\ Goto(t, "st_wait")
            /\ UNCHANGED fail_streak
    /\ UNCHANGED <<now, is_running, last_activity_time, last_switch_time,
                   start_time, current_program, test1_process, movepic_process,
                   test1_last_window_id, switch_lock, test1_restart_count,
                   current_time, osvars, burstvars, sig_requested, fs, res, ww, gpio>>

\* start_test1, lines 146-154, with wait_for_window (lines 298-313): the
\* wait ends when a poll finds the window, when a poll finds the process
\* exited, or at the timeout.  After a wait that failed, a live process goes
\* on to the success path; an exited one, or a handle that another thread
\* has dropped (AttributeError), leads to restart_test1.
start_test1_wait(t) ==
    /\ pc[t] = "st_wait"
    /\ \/ /\ t1_windows # {}
          /\ Goto(t, "st_finish")
          /\ UNCHANGED fail_streak
       \/ /\ t1_windows = {}
          /\ test1_process # None
          /\ test1_process \notin t1_alive
          /\ Goto(t, "rs_begin")
          /\ FailedCycle(t)
       \/ /\ t1_windows = {}
          /\ test1_process = None
          /\ Goto(t, "rs_begin")
          /\ FailedCycle(t)
       \/ /\ t1_windows = {}
          /\ is_test1_alive
          /\ Goto(t, "st_finish")
          /\ UNCHANGED fail_streak
    /\ UNCHANGED <<now, fields, current_time, osvars, burstvars,
                   sig_requested, fs, res, ww, gpio>>

\* The sleeps of 0.5 s that fit in the timeout of start_test1's wait.
WaitPolls == WAIT_TIMEOUT * POLLS_PER_SECOND

\* The early exit of the wait left out.
ProcessExitedIgnored == FALSE

\* wait_for_window, lines 307-308: there is a handle and its process has
\* exited.
ProcessExited == test1_process # None /\ test1_process \notin t1_alive

\* wait_for_window, lines 301-313, poll by poll: past the timeout it returns
\* False; else a window found makes it return True, a process found exited
\* makes it return False, and otherwise it sleeps 0.5 s and polls again.
wait_for_window_poll(t) ==
    /\ pc[t] = "st_wait"
    /\ ~ww.returned
    /\ IF ww.elapsed >= WaitPolls
       THEN ww' = [ww EXCEPT !.returned = TRUE, !.result = FALSE]
       ELSE IF find_window_id(t1_windows) # None
       THEN ww' = [ww EXCEPT !.returned = TRUE, !.result = TRUE]
       ELSE IF ProcessExited
       THEN ww' = [ww EXCEPT !.returned = TRUE, !.result = FALSE]
       ELSE ww' = [ww EXCEPT !.elapsed = ww.elapsed + 1]
    /\ UNCHANGED <<now, fields, pc, current_time, osvars, burstvars,
                   fail_streak, sig_requested, fs, res, gpio>>

\* start_test1, lines 146-154, once wait_for_window has returned: after
\* True, or after False with the process still running, the success path
\* follows; after False with the process exited (or the handle dropped:
\* AttributeError) restart_test1 is called.
start_test1_waited(t) ==
    /\ pc[t] = "st_wait"
    /\ ww.returned
    /\ ww' = WaitIdle
    /\ IF ww.result \/ is_test1_alive
       THEN /\ Goto(t, "st_finish")
            /\ UNCHANGED fail_streak
       ELSE /\ Goto(t, "rs_begin")
            /\ FailedCycle(t)
    /\ UNCHANGED <<now, fields, current_time, osvars, burstvars,
                   sig_requested, fs, res, gpio>>

\* The success path leaving the current program as it was.
start_test1_finish_keeps_program(t) ==
    /\ pc[t] = "st_finish"
    /\ test1_last_window_id' = find_window_id(t1_windows)
    /\ last_activity_time' = now
    /\ fail_streak' = IF t = "main" THEN 0 ELSE fail_streak
    /\ Goto(t, ChainReturn(t))
    /\ UNCHANGED <<now, is_running, last_switch_time, start_time,
                   current_program, test1_process, movepic_process,
                   test1_last_pid, switch_lock, test1_restart_count,
                   current_time, osvars, burstvars, sig_requested, fs, res,
                   ww, gpio>>

\* start_test1, lines 157-162: the success path.
start_test1_finish(t) ==
    /\ pc[t] = "st_finish"
    /\ test1_last_window_id' = find_window_id(t1_windows)
    /\ current_program' = "test1"
    /\ last_activity_time' = now
    /\ fail_streak' = IF t = "main" THEN 0 ELSE fail_streak
    /\ Goto(t, ChainReturn(t))
    /\ UNCHANGED <<now, is_running, last_switch_time, start_time,
                   test1_process, movepic_process, test1_last_pid, switch_lock,
                   test1_restart_count, current_time, osvars, burstvars,
                   sig_requested, fs, res, ww, gpio>>

\* restart_test1, lines 169-174: count, and give up at the ceiling.
restart_test1_begin(t) ==
    /\ pc[t] = "rs_begin"
    /\ test1_restart_count' = test1_restart_count + 1
    /\ IF test1_restart_count' >= MAX_RESTART_COUNT
       THEN Goto(t, ChainReturn(t))
       ELSE Goto(t, "rs_stop")
    /\ UNCHANGED <<now, is_running, last_activity_time, last_switch_time,
                   start_time, current_program, test1_process, movepic_process,
                   test1_last_pid, test1_last_window_id, switch_lock,
                   current_time, osvars, burstvars, fail_streak,
                   sig_requested, fs, res, ww, gpio>>

\* restart_test1, lines 176-178: force-kill, sleep 2 s, start again.
restart_test1_stop(t) ==
    /\ pc[t] = "rs_stop"
    /\ stop_test1(TRUE)
    /\ Goto(t, "st_begin")
    /\ UNCHANGED <<now, is_running, last_activity_time, last_switch_time,
                   start_time, current_program, movepic_process,
                   test1_last_pid, test1_last_window_id, switch_lock,
                   test1_restart_count, current_time, mp_alive, mp_windows,
                   signal_file, kills_left, burstvars, fail_streak,
                   sig_requested, fs, res, ww, gpio>>

Chain(t) ==
    \/ start_test1_begin(t)
    \/ start_test1_popen(t)
    \/ start_test1_pid(t)
    \/ start_test1_wait(t)
    \/ start_test1_finish(t)
    \/ restart_test1_begin(t)
    \/ restart_test1_stop(t)

\* No cooldown at all.
CooldownOff(ct) == FALSE

\* The cooldown measured from the last activity instead of the last switch.
CooldownFromActivity(ct) == ct - last_activity_time < SWITCH_COOLDOWN

(***************************************************************************)
(* switch_to_test1 and switch_to_movepic.                                  *)
(***************************************************************************)
\* lines 235 / 288: the cooldown test on the time read under the lock.
Cooldown(ct) == ct - last_switch_time < SWITCH_COOLDOWN

\* The test for the current program left out.
AlreadyCurrentUnchecked(target) == FALSE

\* lines 238 / 291: the target is already the current program.
AlreadyCurrent(target) == current_program = target

\* The request of thread t is over: it returns to its watchdog loop.
Return(t) ==
    /\ Goto(t, Home(t))
    /\ in_burst' = [in_burst EXCEPT ![t] = FALSE]
    /\ current_time' = [current_time EXCEPT ![t] = 0]

\* The lock taken whether it is free or not.
LockIgnored == TRUE

\* "with self.switch_lock:", lines 233 / 286: the lock can be taken.
LockFree == switch_lock = NoThread

\* "with self.switch_lock:" and lines 234-239 (286-292): the lock is taken,
\* the clock is read, and the request returns at once when it is cooled
\* down or when its target is current; otherwise it goes on, holding the
\* lock.
switch_enter(t, target) ==
    /\ pc[t] = IF target = "test1" THEN "sw1_enter" ELSE "swm_enter"
    /\ LockFree
    /\ IF Cooldown(now) \/ AlreadyCurrent(target)
       THEN /\ Return(t)
            /\ sw_result' = IF ~Cooldown(now) THEN "no-op"
                             ELSE IF target = "test1" THEN "cooldown test1"
                             ELSE "cooldown movepic"
            /\ UNCHANGED <<switch_lock, burst_perf, perf_acq>>
       ELSE /\ switch_lock' = t
            /\ sw_result' = IF target = "test1" THEN "to test1"
                             ELSE "to movepic"
            /\ current_time' = [current_time EXCEPT ![t] = now]
            /\ Goto(t, IF target = "test1" THEN "s1_stop" ELSE "sm_popen")
            /\ burst_perf' = IF in_burst[t] /\ burst_perf < 2
                             THEN burst_perf + 1 ELSE burst_perf
            /\ perf_acq' = now
            /\ UNCHANGED in_burst
    /\ UNCHANGED <<now, is_running, last_activity_time, last_switch_time,
                   start_time, current_program, test1_process, movepic_process,
                   test1_last_pid, test1_last_window_id, test1_restart_count,
                   osvars, last_issue, burst_reqs, fail_streak, sig_requested,
                   fs, res, ww, gpio>>

switch_to_test1_enter(t) == switch_enter(t, "test1")

switch_to_movepic_enter(t) == switch_enter(t, "movepic")

\* switch_to_test1, lines 242-243: movepic is force-killed.
switch_to_test1_stop(t) ==
    /\ pc[t] = "s1_stop"
    /\ stop_movepic(TRUE)
    /\ Goto(t, "s1_check")
    /\ UNCHANGED <<now, is_running, last_activity_time, last_switch_time,
                   start_time, current_program, test1_process,
                   test1_last_pid, test1_last_window_id, switch_lock,
                   test1_restart_count, current_time, t1_alive, t1_windows,
                   signal_file, kills_left, burstvars, fail_streak,
                   sig_requested, fs, res, ww, gpio>>

\* switch_to_test1, lines 245-261: a dead test1 is started; a live one whose
\* window cannot be found (so that activate_window fails) is restarted; a
\* live one with a window is activated, fullscreened and woken.
switch_to_test1_check(t) ==
    /\ pc[t] = "s1_check"
    /\ IF ~is_test1_alive THEN Goto(t, "st_begin")
       ELSE IF find_window_id(t1_windows) = None THEN Goto(t, "rs_begin")
       ELSE Goto(t, "s1_verify")
    /\ UNCHANGED <<now, fields, current_time, osvars, burstvars, fail_streak,
                   sig_requested, fs, res, ww, gpio>>

\* The thread's request ends: the lock is released on leaving the with block.
Release(t) ==
    /\ switch_lock' = NoThread
    /\ Return(t)

\* The re-verification taken to succeed always.
WindowNeverGone == FALSE

\* switch_to_test1, line 264: the window is not found.
WindowGone == find_window_id(t1_windows) = None

\* switch_to_test1, lines 263-273: the window is looked up again after 1 s;
\* if it is gone test1 is restarted, else the switch succeeds.
switch_to_test1_verify(t) ==
    /\ pc[t] = "s1_verify"
    /\ IF WindowGone
       THEN /\ Goto(t, "s1_restart")
            /\ UNCHANGED <<current_program, last_activity_time,
                           last_switch_time, switch_lock, in_burst,
                           current_time>>
       ELSE /\ current_program' = "test1"
            /\ last_activity_time' = now
            /\ last_switch_time' = current_time[t]
            /\ Release(t)
    /\ UNCHANGED <<now, is_running, start_time, test1_process, movepic_process,
                   test1_last_pid, test1_last_window_id, test1_restart_count,
                   osvars, last_issue, burst_reqs, burst_perf, perf_acq,
                   sw_result, fail_streak, sig_requested, fs, res, ww, gpio>>

\* switch_to_test1, lines 265-266: the failure is logged and restart_test1
\* is called.
switch_to_test1_restart(t) ==
    /\ pc[t] = "s1_restart"
    /\ Goto(t, "rs_begin")
    /\ UNCHANGED <<now, fields, current_time, osvars, burstvars, fail_streak,
                   sig_requested, fs, res, ww, gpio>>

\* switch_to_test1, lines 248-249, 256-257, 267-268: after start_test1 or
\* restart_test1 has returned, the switch time is recorded.
switch_to_test1_done(t) ==
    /\ pc[t] = "sw_done"
    /\ last_switch_time' = current_time[t]
    /\ Release(t)
    /\ UNCHANGED <<now, is_running, last_activity_time, start_time,
                   current_program, test1_process, movepic_process,
                   test1_last_pid, test1_last_window_id, test1_restart_count,
                   osvars, last_issue, burst_reqs, burst_perf, perf_acq, sw_result, fail_streak,
                   sig_requested, fs, res, ww, gpio>>

\* A launch that raises ending the switch without recording its time.
start_movepic_popen_unrecorded(t) ==
    /\ pc[t] = "sm_popen"
    /\ \/ /\ FreshMp # {}
          /\ LET p == Min(FreshMp) IN
                /\ movepic_process' = p
                /\ mp_alive' = {p}
          /\ mp_windows' = {}
          /\ Goto(t, "sm_wait")
          /\ UNCHANGED <<switch_lock, in_burst, current_time>>
       \/ /\ mp_alive' = {}
          /\ mp_windows' = {}
          /\ Release(t)
          /\ UNCHANGED movepic_process
    /\ UNCHANGED <<now, is_running, last_activity_time, last_switch_time,
                   start_time, current_program, test1_process, test1_last_pid,
                   test1_last_window_id, test1_restart_count, t1_alive,
                   t1_windows, signal_file, kills_left, last_issue,
                   burst_reqs, burst_perf, perf_acq, sw_result, fail_streak,
                   sig_requested, fs, res, ww, gpio>>

\* start_movepic, lines 201-207 and 211-212, then line 296: remnants are
\* killed by name and movepic is launched; if the launch raises,
\* start_movepic returns and the switch only records its time.
start_movepic_popen(t) ==
    /\ pc[t] = "sm_popen"
    /\ \/ /\ FreshMp # {}
          /\ LET p == Min(FreshMp) IN
                /\ movepic_process' = p
                /\ mp_alive' = {p}
          /\ mp_windows' = {}
          /\ Goto(t, "sm_wait")
          /\ UNCHANGED <<last_switch_time, switch_lock, in_burst,
                         current_time>>
       \/ /\ mp_alive' = {}
          /\ mp_windows' = {}
          /\ last_switch_time' = current_time[t]
          /\ Release(t)
          /\ UNCHANGED movepic_process
    /\ UNCHANGED <<now, is_running, last_activity_time, start_time,
                   current_program, test1_process, test1_last_pid,
                   test1_last_window_id, test1_restart_count, t1_alive,
                   t1_windows, signal_file, kills_left, last_issue,
                   burst_reqs, burst_perf, perf_acq, sw_result, fail_streak,
                   sig_requested, fs, res, ww, gpio>>

\* The switch time taken when the switch ends, not when it began.
start_movepic_finish_now(t) ==
    /\ pc[t] = "sm_wait"
    /\ current_program' = "movepic"
    /\ last_switch_time' = now
    /\ Release(t)
    /\ UNCHANGED <<now, is_running, last_activity_time, start_time,
                   test1_process, movepic_process, test1_last_pid,
                   test1_last_window_id, test1_restart_count, osvars,
                   last_issue, burst_reqs, burst_perf, perf_acq, sw_result,
                   fail_streak, sig_requested, fs, res, ww, gpio>>

\* movepic made the current program only when its window has appeared.
start_movepic_finish_if_window(t) ==
    /\ pc[t] = "sm_wait"
    /\ current_program' = IF movepic_process \in mp_windows THEN "movepic"
                          ELSE current_program
    /\ last_switch_time' = current_time[t]
    /\ Release(t)
    /\ UNCHANGED <<now, is_running, last_activity_time, start_time,
                   test1_process, movepic_process, test1_last_pid,
                   test1_last_window_id, test1_restart_count, osvars,
                   last_issue, burst_reqs, burst_perf, perf_acq, sw_result,
                   fail_streak, sig_requested, fs, res, ww, gpio>>

\* start_movepic, lines 208-210, then line 296: whatever the wait for the
\* window returns, movepic becomes the current program.
start_movepic_finish(t) ==
    /\ pc[t] = "sm_wait"
    /\ current_program' = "movepic"
    /\ last_switch_time' = current_time[t]
    /\ Release(t)
    /\ UNCHANGED <<now, is_running, last_activity_time, start_time,
                   test1_process, movepic_process, test1_last_pid,
                   test1_last_window_id, test1_restart_count, osvars,
                   last_issue, burst_reqs, burst_perf, perf_acq, sw_result,
                   fail_streak, sig_requested, fs, res, ww, gpio>>

(***************************************************************************)
(* The watchdog threads.                                                   *)
(***************************************************************************)
EventTypes == {"EV_KEY", "EV_REL", "EV_ABS", "EV_SYN"}
EventValues == {-(DEADZONE + 1), -DEADZONE, 0, 1, 2, DEADZONE, DEADZONE + 1}

\* Any key event taken for activity, whatever its value.
IsActivityAnyKey(type, value) ==
    \/ type = "EV_KEY"
    \/ type \in {"EV_REL", "EV_ABS"} /\ Abs(value) > DEADZONE

\* listen_device_input, lines 451 and 456-457: a key-down, or a relative or
\* absolute movement beyond the dead zone.
IsActivity(type, value) ==
    \/ type = "EV_KEY" /\ value = 1
    \/ type \in {"EV_REL", "EV_ABS"} /\ Abs(value) > DEADZONE

\* The start-up protection left out.
NoStartupProtection == FALSE

\* listen_device_input, line 449.
InStartupProtection == now - start_time < STARTUP_PROTECTION

\* A watchdog calls switch_to_test1 / switch_to_movepic: the request is
\* issued now.
Issue(t, label) ==
    /\ Goto(t, label)
    /\ last_issue' = now
    /\ IF last_issue = NoIssue \/ now - last_issue >= SWITCH_COOLDOWN
       THEN /\ in_burst' = [u \in Switchers |-> u = t]
            /\ burst_reqs' = 1
            /\ burst_perf' = 0
       ELSE /\ in_burst' = [in_burst EXCEPT ![t] = TRUE]
            /\ burst_reqs' = IF burst_reqs < 3 THEN burst_reqs + 1 ELSE burst_reqs
            /\ UNCHANGED burst_perf

\* listen_device_input, lines 446-461: one event of the device.
listen_device_input(t, type, value) ==
    /\ pc[t] = "in_listen"
    /\ IF ~is_running
       THEN /\ Goto(t, "exited")
            /\ UNCHANGED <<last_activity_time, last_issue, in_burst,
                           burst_reqs, burst_perf>>
       ELSE IF InStartupProtection \/ ~IsActivity(type, value)
       THEN UNCHANGED <<last_activity_time, pc, last_issue, in_burst, burst_reqs, burst_perf>>
       ELSE /\ last_activity_time' = now
            /\ IF current_program = "movepic"
               THEN Issue(t, "sw1_enter")
               ELSE UNCHANGED <<pc, last_issue, in_burst, burst_reqs, burst_perf>>
    /\ UNCHANGED <<now, is_running, last_switch_time, start_time,
                   current_program, test1_process, movepic_process,
                   test1_last_pid, test1_last_window_id, switch_lock,
                   test1_restart_count, current_time, osvars, perf_acq,
                   sw_result,
                   fail_streak, sig_requested, fs, res, ww, gpio>>

\* monitor_low_signal, lines 467-469: the poll that looks for the file.
monitor_low_signal_poll(t) ==
    /\ pc[t] = "sg_poll"
    /\ IF ~is_running
       THEN Goto(t, "exited")
       ELSE /\ signal_file
            /\ Goto(t, "sg_rm")
    /\ UNCHANGED <<now, fields, current_time, osvars, burstvars, fail_streak,
                   sig_requested, fs, res, ww, gpio>>

\* The file left in place.
KeepSignalFile == signal_file

\* monitor_low_signal, line 471: "sudo rm -f" removes the file.
RemoveSignalFile == FALSE

\* monitor_low_signal, lines 471-477: the file is removed and, when movepic
\* is current, switch_to_test1 is called; when the removal fails (check=True
\* raises) the iteration ends in the except clause.
monitor_low_signal_remove(t) ==
    /\ pc[t] = "sg_rm"
    /\ \/ /\ signal_file' = RemoveSignalFile
          /\ IF current_program = "movepic"
             THEN /\ Issue(t, "sw1_enter")
                  /\ sig_requested' = TRUE
             ELSE /\ Goto(t, "sg_poll")
                  /\ UNCHANGED <<last_issue, in_burst, burst_reqs,
                                 burst_perf, sig_requested>>
       \/ /\ Goto(t, "sg_poll")
          /\ UNCHANGED <<signal_file, last_issue, in_burst, burst_reqs,
                         burst_perf, sig_requested>>
    /\ UNCHANGED <<now, fields, current_time, t1_alive, t1_windows, mp_alive,
                   mp_windows, kills_left, perf_acq, sw_result, fail_streak,
                   fs, res, ww, gpio>>

\* The test the other watchdogs make on the current program.
IdleWhileMovepic ==
    /\ current_program = "movepic"
    /\ now - start_time > STARTUP_PROTECTION
    /\ now - last_activity_time > TIMEOUT_SECONDS

\* The idle time compared with >= instead of >.
IdleTimedOutInclusive ==
    /\ current_program = "test1"
    /\ now - start_time > STARTUP_PROTECTION
    /\ now - last_activity_time >= TIMEOUT_SECONDS

\* monitor_timeout, lines 483-485.
IdleTimedOut ==
    /\ current_program = "test1"
    /\ now - start_time > STARTUP_PROTECTION
    /\ now - last_activity_time > TIMEOUT_SECONDS

\* monitor_timeout, lines 481-488: one poll, up to the call of
\* switch_to_movepic or to the sleep that ends the iteration.
monitor_timeout(t) ==
    /\ pc[t] = "to_poll"
    /\ IF ~is_running
       THEN /\ Goto(t, "exited")
            /\ UNCHANGED <<last_issue, in_burst, burst_reqs, burst_perf>>
       ELSE IF IdleTimedOut
       THEN Issue(t, "swm_enter")
       ELSE /\ Goto(t, "to_sleep")
            /\ UNCHANGED <<last_issue, in_burst, burst_reqs, burst_perf>>
    /\ UNCHANGED <<now, fields, current_time, osvars, perf_acq, sw_result,
                   fail_streak, sig_requested, fs, res, ww, gpio>>

\* monitor_timeout, line 488: the sleep is over, the next iteration begins.
monitor_timeout_sleep(t) ==
    /\ pc[t] = "to_sleep"
    /\ Goto(t, "to_poll")
    /\ UNCHANGED <<now, fields, current_time, osvars, burstvars, fail_streak,
                   sig_requested, fs, res, ww, gpio>>

\* The churn monitor_test1_health looks for, lines 505-507 and 512-514.
PidChurn == test1_process # test1_last_pid

WindowChurn ==
    /\ find_window_id(t1_windows) # None
    /\ find_window_id(t1_windows) # test1_last_window_id

\* monitor_test1_health, lines 495-523: one poll.  A dead test1 is
\* restarted.  For a live one a pid that differs from the recorded one is
\* recorded, and a window id that differs from the recorded one is recorded
\* and the window is activated.
monitor_test1_health(t) ==
    /\ pc[t] = "h_poll"
    /\ IF ~is_running
       THEN /\ Goto(t, "exited")
            /\ UNCHANGED <<test1_last_pid, test1_last_window_id>>
       ELSE /\ current_program = "test1"
            /\ IF ~is_test1_alive
               THEN /\ Goto(t, "rs_begin")
                    /\ UNCHANGED <<test1_last_pid, test1_last_window_id>>
               ELSE /\ test1_last_pid' = test1_process
                    /\ IF WindowChurn
                       THEN /\ test1_last_window_id' =
                                  find_window_id(t1_windows)
                            /\ Goto(t, "h_activate")
                       ELSE UNCHANGED <<test1_last_window_id, pc>>
    /\ UNCHANGED <<now, is_running, last_activity_time, last_switch_time,
                   start_time, current_program, test1_process, movepic_process,
                   switch_lock, test1_restart_count, current_time, osvars,
                   burstvars, fail_streak, sig_requested, fs, res, ww, gpio>>

\* monitor_test1_health, lines 518-523: activate_window on the new window,
\* then force_fullscreen and the sleep that ends the iteration.
monitor_test1_health_activate(t) ==
    /\ pc[t] = "h_activate"
    /\ Goto(t, "h_poll")
    /\ UNCHANGED <<now, fields, current_time, osvars, burstvars, fail_streak,
                   sig_requested, fs, res, ww, gpio>>

(***************************************************************************)
(* The main thread: __init__ ends with start_monitors; then run, and the   *)
(* exit handler with terminate_all.                                        *)
(***************************************************************************)
\* The watchdog threads started before start_test1 is called.
start_monitors_first ==
    /\ pc["main"] = "st_begin"
    /\ \A t \in Threads \ {"main"} : pc[t] = "off"
    /\ pc' = [t \in Threads |->
                 IF t = "main" THEN "st_begin"
                 ELSE IF t = "health" THEN "h_poll"
                 ELSE Home(t)]
    /\ UNCHANGED <<now, fields, current_time, osvars, burstvars, fail_streak,
                   sig_requested, fs, res, ww, gpio>>

\* start_monitors, lines 418-421: the four watchdog threads start.
start_monitors ==
    /\ pc["main"] = "init_monitors"
    /\ pc' = [t \in Threads |->
                 IF t = "main" THEN "run"
                 ELSE IF t = "health" THEN "h_poll"
                 ELSE Home(t)]
    /\ UNCHANGED <<now, fields, current_time, osvars, burstvars, fail_streak,
                   sig_requested, fs, res, ww, gpio>>

\* handle_exit, lines 576-578: a termination signal arrives during run.
handle_exit ==
    /\ pc["main"] = "run"
    /\ is_running' = FALSE
    /\ Goto("main", "term_movepic")
    /\ UNCHANGED <<now, last_activity_time, last_switch_time, start_time,
                   current_program, test1_process, movepic_process,
                   test1_last_pid, test1_last_window_id, switch_lock,
                   test1_restart_count, current_time, osvars, burstvars,
                   fail_streak, sig_requested, fs, res, ww, gpio>>

\* terminate_all, lines 556-563: the GPIO script is stopped (a failure is
\* caught and logged), then movepic is force-killed.
terminate_all_movepic ==
    /\ pc["main"] = "term_movepic"
    /\ stop_movepic(TRUE)
    /\ Goto("main", "term_test1")
    /\ UNCHANGED <<now, is_running, last_activity_time, last_switch_time,
                   start_time, current_program, test1_process,
                   test1_last_pid, test1_last_window_id, switch_lock,
                   test1_restart_count, current_time, t1_alive, t1_windows,
                   signal_file, kills_left, burstvars, fail_streak,
                   sig_requested, fs, res, ww, gpio>>

\* terminate_all, line 564, and sys.exit (line 580): the daemon threads end
\* with the process.
terminate_all_test1 ==
    /\ pc["main"] = "term_test1"
    /\ stop_test1(TRUE)
    /\ pc' = [t \in Threads |-> "exited"]
    /\ UNCHANGED <<now, is_running, last_activity_time, last_switch_time,
                   start_time, current_program, movepic_process,
                   test1_last_pid, test1_last_window_id, switch_lock,
                   test1_restart_count, current_time, mp_alive, mp_windows,
                   signal_file, kills_left, burstvars, fail_streak,
                   sig_requested, fs, res, ww, gpio>>

(***************************************************************************)
(* The environment: the clock, the supervised programs, the GPIO script.   *)
(***************************************************************************)
\* The clock advances by d.  A request that finds the lock free takes it at
\* once: no time passes while one is about to.
Tick(d, limit) ==
    /\ now + d <= limit
    /\ \A t \in Switchers : pc[t] \in {"sw1_enter", "swm_enter"} => switch_lock # NoThread
    /\ now' = now + d
    /\ UNCHANGED <<fields, pc, current_time, osvars, burstvars, fail_streak,
                   sig_requested, fs, res, ww, gpio>>

\* A test1 process exits (a crash, or a kill from outside); its window goes.
test1_exits ==
    /\ \E p \in t1_alive :
          /\ t1_alive' = t1_alive \ {p}
          /\ t1_windows' = t1_windows \ {p}
    /\ UNCHANGED <<now, fields, pc, current_time, mp_alive, mp_windows,
                   signal_file, kills_left, burstvars, fail_streak,
                   sig_requested, fs, res, ww, gpio>>

\* The process of the handle is killed from outside (at most MaxKills times).
test1_killed ==
    /\ kills_left > 0
    /\ is_test1_alive
    /\ kills_left' = kills_left - 1
    /\ t1_alive' = t1_alive \ {test1_process}
    /\ t1_windows' = t1_windows \ {test1_process}
    /\ UNCHANGED <<now, fields, pc, current_time, mp_alive, mp_windows,
                   signal_file, burstvars, fail_streak, sig_requested, fs, res, ww, gpio>>

\* A live test1 process creates its window.
test1_window_appears ==
    /\ \E p \in t1_alive \ t1_windows : t1_windows' = t1_windows \cup {p}
    /\ UNCHANGED <<now, fields, pc, current_time, t1_alive, mp_alive,
                   mp_windows, signal_file, kills_left, burstvars, fail_streak,
                   sig_requested, fs, res, ww, gpio>>

movepic_exits ==
    /\ \E p \in mp_alive :
          /\ mp_alive' = mp_alive \ {p}
          /\ mp_windows' = mp_windows \ {p}
    /\ UNCHANGED <<now, fields, pc, current_time, t1_alive, t1_windows,
                   signal_file, kills_left, burstvars, fail_streak,
                   sig_requested, fs, res, ww, gpio>>

movepic_window_appears ==
    /\ \E p \in mp_alive \ mp_windows : mp_windows' = mp_windows \cup {p}
    /\ UNCHANGED <<now, fields, pc, current_time, t1_alive, t1_windows,
                   mp_alive, signal_file, kills_left, burstvars, fail_streak,
                   sig_requested, fs, res, ww, gpio>>

\* The GPIO script creates the signal file: a new appearance.
signal_file_appears ==
    /\ ~signal_file
    /\ signal_file' = TRUE
    /\ sig_requested' = FALSE
    /\ UNCHANGED <<now, fields, pc, current_time, t1_alive, t1_windows,
                   mp_alive, mp_windows, kills_left, burstvars, fail_streak,
                   fs, res, ww, gpio>>

(***************************************************************************)
(* The whole supervisor.                                                   *)
(***************************************************************************)
Events == EventTypes \X EventValues

\* One event of each kind the listener tells apart: a key-down, a key
\* release, a movement beyond the dead zone and one within it.
SomeEvents == {<<"EV_KEY", 1>>, <<"EV_KEY", 0>>, <<"EV_REL", DEADZONE + 1>>,
               <<"EV_ABS", DEADZONE>>}

Watchdogs ==
    \/ \E e \in SomeEvents : listen_device_input("input", e[1], e[2])
    \/ monitor_low_signal_poll("signal")
    \/ monitor_low_signal_remove("signal")
    \/ monitor_timeout("timeout")
    \/ monitor_timeout_sleep("timeout")
    \/ monitor_test1_health("health")
    \/ monitor_test1_health_activate("health")

Switches ==
    \/ \E t \in {"input", "signal"} : switch_to_test1_enter(t)
    \/ \E t \in {"input", "signal"} : switch_to_test1_stop(t)
    \/ \E t \in {"input", "signal"} : switch_to_test1_check(t)
    \/ \E t \in {"input", "signal"} : switch_to_test1_verify(t)
    \/ \E t \in {"input", "signal"} : switch_to_test1_restart(t)
    \/ \E t \in {"input", "signal"} : switch_to_test1_done(t)
    \/ switch_to_movepic_enter("timeout")
    \/ start_movepic_popen("timeout")
    \/ start_movepic_finish("timeout")

Environment ==
    \/ test1_exits
    \/ test1_window_appears
    \/ movepic_exits
    \/ signal_file_appears

CoarseSteps == {TIMEOUT_SECONDS + 1}

Next ==
    \/ \E t \in Threads : Chain(t)
    \/ start_monitors
    \/ Watchdogs
    \/ Switches
    \/ Environment
    \/ \E d \in CoarseSteps : Tick(d, MaxTime)

Spec == Init /\ [][Next]_vars

(***************************************************************************)
(* The supervisor with the clock advancing second by second: the input     *)
(* listener and the idle-timeout watchdog, and the programs they switch    *)
(* between.                                                                *)
(***************************************************************************)
NextTimed ==
    \/ \E t \in {"main", "input", "signal"} : Chain(t)
    \/ start_monitors
    \/ \E e \in SomeEvents : listen_device_input("input", e[1], e[2])
    \/ monitor_low_signal_poll("signal")
    \/ monitor_low_signal_remove("signal")
    \/ monitor_timeout("timeout")
    \/ monitor_timeout_sleep("timeout")
    \/ \E t \in {"input", "signal"} : switch_to_test1_enter(t)
    \/ \E t \in {"input", "signal"} : switch_to_test1_stop(t)
    \/ \E t \in {"input", "signal"} : switch_to_test1_check(t)
    \/ \E t \in {"input", "signal"} : switch_to_test1_verify(t)
    \/ \E t \in {"input", "signal"} : switch_to_test1_restart(t)
    \/ \E t \in {"input", "signal"} : switch_to_test1_done(t)
    \/ switch_to_movepic_enter("timeout")
    \/ start_movepic_popen("timeout")
    \/ start_movepic_finish("timeout")
    \/ test1_exits
    \/ test1_window_appears
    \/ signal_file_appears
    \/ Tick(1, MaxFineTime)

SpecTimed == Init /\ [][NextTimed]_vars

(***************************************************************************)
(* Crash recovery: the start-up and the health watchdog, test1 killed from *)
(* outside, every launch yielding a process.  The threads are scheduled    *)
(* fairly: a thread that can take a step eventually takes one.             *)
(***************************************************************************)
LaunchSucceeds(t) == start_test1_popen(t) /\ pc'[t] = "st_pid"

RecoveryChain(t) ==
    \/ start_test1_begin(t)
    \/ LaunchSucceeds(t)
    \/ start_test1_pid(t)
    \/ start_test1_wait(t)
    \/ start_test1_finish(t)
    \/ restart_test1_begin(t)
    \/ restart_test1_stop(t)

MainThread == RecoveryChain("main") \/ start_monitors

HealthThread ==
    \/ monitor_test1_health("health")
    \/ monitor_test1_health_activate("health")
    \/ RecoveryChain("health")

NextRecovery ==
    \/ MainThread
    \/ HealthThread
    \/ test1_killed
    \/ test1_window_appears
    \/ \E d \in CoarseSteps : Tick(d, MaxTime)

SpecRecovery ==
    /\ Init
    /\ [][NextRecovery]_vars
    /\ WF_vars(MainThread)
    /\ WF_vars(HealthThread)

(***************************************************************************)
(* Switching under fair scheduling: the start-up, the input listener and   *)
(* the idle-timeout watchdog, each thread taking a step whenever it can    *)
(* keep taking one; test1 may exit and any launch may fail.                *)
(***************************************************************************)
StartupThread == Chain("main") \/ start_monitors

InputThread ==
    \/ \E e \in SomeEvents : listen_device_input("input", e[1], e[2])
    \/ switch_to_test1_enter("input")
    \/ switch_to_test1_stop("input")
    \/ switch_to_test1_check("input")
    \/ switch_to_test1_verify("input")
    \/ switch_to_test1_restart("input")
    \/ switch_to_test1_done("input")
    \/ Chain("input")

TimeoutThread ==
    \/ monitor_timeout("timeout")
    \/ monitor_timeout_sleep("timeout")
    \/ switch_to_movepic_enter("timeout")
    \/ start_movepic_popen("timeout")
    \/ start_movepic_finish("timeout")

NextSwitching ==
    \/ StartupThread
    \/ InputThread
    \/ TimeoutThread
    \/ test1_exits
    \/ test1_window_appears
    \/ \E d \in CoarseSteps : Tick(d, MaxTime)

SpecSwitching ==
    /\ Init
    /\ [][NextSwitching]_vars
    /\ WF_vars(StartupThread)
    /\ WF_vars(InputThread)
    /\ WF_vars(TimeoutThread)

(***************************************************************************)
(* The first seconds: __init__ starts test1 and the monitors, the listener *)
(* receives events of every type and value, the clock advances second by   *)
(* second past the end of the start-up protection.                         *)
(***************************************************************************)
NextStartup ==
    \/ StartupThread
    \/ \E e \in Events : listen_device_input("input", e[1], e[2])
    \/ test1_exits
    \/ test1_window_appears
    \/ Tick(1, MaxStartupTime)

SpecStartup == Init /\ [][NextStartup]_vars

(***************************************************************************)
(* The input listener with events of every type and value, next to the     *)
(* start-up and the idle-timeout watchdog that makes movepic current.       *)
(***************************************************************************)
NextInput ==
    \/ StartupThread
    \/ \E e \in Events : listen_device_input("input", e[1], e[2])
    \/ switch_to_test1_enter("input")
    \/ switch_to_test1_stop("input")
    \/ switch_to_test1_check("input")
    \/ switch_to_test1_verify("input")
    \/ switch_to_test1_restart("input")
    \/ switch_to_test1_done("input")
    \/ Chain("input")
    \/ TimeoutThread
    \/ test1_exits
    \/ test1_window_appears
    \/ \E d \in CoarseSteps : Tick(d, MaxTime)

SpecInput == Init /\ [][NextInput]_vars

(***************************************************************************)
(* The switch to movepic with movepic's own window: after the launch the   *)
(* window may appear or not, and movepic may exit, while start_movepic     *)
(* waits for the window.                                                   *)
(***************************************************************************)
NextIdle ==
    \/ NextInput
    \/ movepic_exits
    \/ movepic_window_appears

SpecIdle == Init /\ [][NextIdle]_vars

(***************************************************************************)
(* The start-up with the wait for the window poll by poll: test1 may exit  *)
(* and its window may appear between any two polls.                        *)
(***************************************************************************)
NextWait ==
    \/ start_test1_begin("main")
    \/ start_test1_popen("main")
    \/ start_test1_pid("main")
    \/ wait_for_window_poll("main")
    \/ start_test1_waited("main")
    \/ start_test1_finish("main")
    \/ restart_test1_begin("main")
    \/ restart_test1_stop("main")
    \/ start_monitors
    \/ test1_exits
    \/ test1_window_appears

SpecWait == Init /\ [][NextWait]_vars

(***************************************************************************)
(* Shutdown: a termination signal arrives while the watchdogs run; the     *)
(* handler runs terminate_all in the main thread and the other threads go  *)
(* on until the process exits.                                             *)
(***************************************************************************)
NextShutdown ==
    \/ NextSwitching
    \/ handle_exit
    \/ terminate_all_movepic
    \/ terminate_all_test1

SpecShutdown == Init /\ [][NextShutdown]_vars

(***************************************************************************)
(* force_fullscreen as a function of what the window manager reports.      *)
(***************************************************************************)
\* get_screen_resolution: the size xrandr reports, or the default; here the
\* default panel, in landscape and rotated.
ScreenSizes == {<<DEFAULT_WIDTH, DEFAULT_HEIGHT>>, <<DEFAULT_HEIGHT, DEFAULT_WIDTH>>}

Deltas == (0 - MaxDelta) .. MaxDelta

\* The size test with an exact comparison.
CloseToExact(a, b) == a = b

\* line 360: one dimension of the window is close to the screen's.
CloseTo(a, b) == Abs(a - b) < FULLSCREEN_TOLERANCE

\* force_fullscreen, lines 339-387.  found: find_window_id returned an id;
\* geometry: "ok" when wmctrl -lG lists the window with at least 6 fields,
\* "none" when it does not, "bad" when the size fields are not integers;
\* cmd_fail: which checked wmctrl command exits non-zero (0: none).  The
\* result is the return value and the number of commands issued to the
\* window manager that change the window.
force_fullscreen(found, geometry, win_width, win_height, screen_width, screen_height, force, cmd_fail) ==
    IF ~found
    THEN [result |-> FALSE, commands |-> 0]
    ELSE IF geometry = "bad"
    THEN [result |-> FALSE, commands |-> 0]
    ELSE IF /\ geometry = "ok"
            /\ CloseTo(win_width, screen_width)
            /\ CloseTo(win_height, screen_height)
    THEN [result |-> TRUE, commands |-> 0]
    ELSE IF force
    THEN [result |-> TRUE, commands |-> 1]
    ELSE IF cmd_fail = 1
    THEN [result |-> FALSE, commands |-> 1]
    ELSE [result |-> (cmd_fail = 0), commands |-> 2]

FsInputs ==
    { [phase |-> "call", win_width |-> sz[1] + dw, win_height |-> sz[2] + dh,
       screen_width |-> sz[1], screen_height |-> sz[2],
       found |-> fnd, geometry |-> g, force |-> frc, cmd_fail |-> cf,
       result |-> FALSE, commands |-> 0] :
        sz \in ScreenSizes, dw \in Deltas, dh \in Deltas,
        fnd \in BOOLEAN, g \in {"ok"}, frc \in BOOLEAN, cf \in {0} }
    \cup
    { [phase |-> "call", win_width |-> sz[1] + d, win_height |-> sz[2] - d,
       screen_width |-> sz[1], screen_height |-> sz[2],
       found |-> TRUE, geometry |-> g, force |-> frc, cmd_fail |-> cf,
       result |-> FALSE, commands |-> 0] :
        sz \in ScreenSizes, d \in {0, FULLSCREEN_TOLERANCE},
        g \in {"ok", "none", "bad"}, frc \in BOOLEAN, cf \in 0 .. 2 }

InitFullscreen ==
    /\ InitSystem
    /\ fs \in FsInputs
    /\ res = ResIdle
    /\ ww = WaitIdle
    /\ gpio = GpioIdle

force_fullscreen_call ==
    /\ fs.phase = "call"
    /\ LET r == force_fullscreen(fs.found, fs.geometry, fs.win_width,
                                 fs.win_height, fs.screen_width,
                                 fs.screen_height, fs.force, fs.cmd_fail)
       IN  fs' = [fs EXCEPT !.phase = "done", !.result = r.result,
                            !.commands = r.commands]
    /\ UNCHANGED <<now, fields, pc, current_time, osvars, burstvars,
                   fail_streak, sig_requested, res, ww, gpio>>

NextFullscreen == force_fullscreen_call

SpecFullscreen == InitFullscreen /\ [][NextFullscreen]_vars

(***************************************************************************)
(* get_screen_resolution as a function of what the three tools print.      *)
(* An output is a sequence of tokens: a run of digits (its value), the     *)
(* letter x, or a plus sign.                                               *)
(***************************************************************************)
Num(n) == [kind |-> "num", value |-> n]
X == [kind |-> "x", value |-> 0]
Plus == [kind |-> "+", value |-> 0]

\* What a tool may print: nothing (it failed), WxH, WxH+0+0 (the geometry
\* xwininfo prints), a lone number, WxHxH, a lone x.
Outputs ==
    { <<>>,
      <<Num(DEFAULT_WIDTH), X, Num(DEFAULT_HEIGHT)>>,
      <<Num(DEFAULT_HEIGHT), X, Num(DEFAULT_WIDTH)>>,
      <<Num(DEFAULT_WIDTH), X, Num(DEFAULT_HEIGHT), Plus, Num(0), Plus, Num(0)>>,
      <<Num(DEFAULT_WIDTH)>>,
      <<Num(DEFAULT_WIDTH), X, Num(DEFAULT_HEIGHT), X, Num(DEFAULT_HEIGHT)>>,
      <<X>> }

\* line 78: 'x' in output.
HasX(output) == \E i \in 1 .. Len(output) : output[i] = X

\* The positions of the letter x in the output.
XPositions(output) == {i \in 1 .. Len(output) : output[i] = X}

\* int(s) succeeds on a run of digits only.
IsInt(tokens) == Len(tokens) = 1 /\ tokens[1].kind = "num"

\* lines 79-80: output.split('x') must have exactly two parts and int()
\* must accept both; otherwise ValueError is raised.
ParsesAsPair(output) ==
    /\ Cardinality(XPositions(output)) = 1
    /\ LET i == CHOOSE k \in XPositions(output) : TRUE
       IN  /\ IsInt(SubSeq(output, 1, i - 1))
           /\ IsInt(SubSeq(output, i + 1, Len(output)))

PairOf(output) ==
    LET i == CHOOSE k \in XPositions(output) : TRUE
    IN  <<output[i - 1].value, output[i + 1].value>>

Default == <<DEFAULT_WIDTH, DEFAULT_HEIGHT>>

\* get_screen_resolution, lines 65-86: the methods are tried from the i-th
\* on.  The first output that contains an x is parsed; a ValueError leaves
\* the loop for the except clause, which returns the default.
RECURSIVE resolution_from(_, _)
resolution_from(outputs, i) ==
    IF i > Len(outputs) THEN Default
    ELSE IF HasX(outputs[i])
    THEN IF ParsesAsPair(outputs[i]) THEN PairOf(outputs[i]) ELSE Default
    ELSE resolution_from(outputs, i + 1)

get_screen_resolution(outputs) == resolution_from(outputs, 1)

Methods == 1 .. 3

InitResolution ==
    /\ InitSystem
    /\ fs = FsIdle
    /\ res \in { [phase |-> "call", outputs |-> o, width |-> 0, height |-> 0] :
                    o \in [Methods -> Outputs] }
    /\ ww = WaitIdle
    /\ gpio = GpioIdle

get_screen_resolution_call ==
    /\ res.phase = "call"
    /\ LET r == get_screen_resolution(res.outputs)
       IN  res' = [res EXCEPT !.phase = "done", !.width = r[1],
                              !.height = r[2]]
    /\ UNCHANGED <<now, fields, pc, current_time, osvars, burstvars,
                   fail_streak, sig_requested, fs, ww, gpio>>

NextResolution == get_screen_resolution_call

SpecResolution == InitResolution /\ [][NextResolution]_vars

(***************************************************************************)
(* The GPIO script and the threads that monitor its output: __init__       *)
(* starts the script, the script may exit at any time, and a monitor       *)
(* thread that finds it exited starts it again.                            *)
(***************************************************************************)
\* start_gpio_script, lines 90-104: the outcomes of one call.  When the
\* script is missing or Popen raises, nothing changes; otherwise the handle
\* is the new process and a thread running monitor_gpio_script_output is
\* started (lines 108-110: it finds the handle set and enters its loop).
start_gpio_script(g) ==
    {g} \cup
    IF g.launched < MaxGpioPid
    THEN {[g EXCEPT !.handle = g.launched + 1,
                    !.launched = g.launched + 1,
                    !.alive = g.alive \cup {g.launched + 1},
                    !.polling = g.polling + 1]}
    ELSE {}

\* __init__, line 59: the first call of start_gpio_script.
init_start_gpio_script ==
    /\ ~gpio.started
    /\ \E g \in start_gpio_script(gpio) : gpio' = [g EXCEPT !.started = TRUE]
    /\ UNCHANGED <<now, fields, pc, current_time, osvars, burstvars,
                   fail_streak, sig_requested, fs, res, ww>>

\* monitor_gpio_script_output, lines 110-111 and 116-121: a monitor thread
\* at the top of its loop ends when is_running is False, goes on to restart
\* the script when the process of the handle has exited, and otherwise
\* reads the output and sleeps.
monitor_gpio_script_output_poll ==
    /\ gpio.polling > 0
    /\ IF ~is_running
       THEN gpio' = [gpio EXCEPT !.polling = gpio.polling - 1]
       ELSE IF gpio.handle \notin gpio.alive
       THEN gpio' = [gpio EXCEPT !.polling = gpio.polling - 1,
                                 !.restarting = gpio.restarting + 1]
       ELSE UNCHANGED gpio
    /\ UNCHANGED <<now, fields, pc, current_time, osvars, burstvars,
                   fail_streak, sig_requested, fs, res, ww>>

\* monitor_gpio_script_output, lines 112-115: the thread that found the
\* script exited calls start_gpio_script, sleeps and continues its loop.
monitor_gpio_script_output_restart ==
    /\ gpio.restarting > 0
    /\ \E g \in start_gpio_script(gpio) :
          gpio' = [g EXCEPT !.restarting = g.restarting - 1,
                            !.polling = g.polling + 1]
    /\ UNCHANGED <<now, fields, pc, current_time, osvars, burstvars,
                   fail_streak, sig_requested, fs, res, ww>>

\* The GPIO script exits.
gpio_script_exits ==
    /\ \E p \in gpio.alive : gpio' = [gpio EXCEPT !.alive = gpio.alive \ {p}]
    /\ UNCHANGED <<now, fields, pc, current_time, osvars, burstvars,
                   fail_streak, sig_requested, fs, res, ww>>

NextGpio ==
    \/ init_start_gpio_script
    \/ monitor_gpio_script_output_poll
    \/ monitor_gpio_script_output_restart
    \/ gpio_script_exits

SpecGpio == Init /\ [][NextGpio]_vars

(***************************************************************************)
(* Properties.                                                             *)
(***************************************************************************)
EnterLabel(target) == IF target = "test1" THEN "sw1_enter" ELSE "swm_enter"

AllReturned == \A t \in Switchers : ~in_burst[t]

\* C1, as stated: in a burst of switch requests, each issued less than
\* SWITCH_COOLDOWN after the one before, at most one request performs a
\* switch.
C1_BurstPerformsAtMostOnce == burst_perf <= 1

\* C1, amended: a request performs a switch only if it read the clock under
\* the lock at least SWITCH_COOLDOWN after the last request that performed
\* one did; a request that reads it sooner returns at once, leaving the
\* foreground state, the handles, the processes and the windows unchanged.
C1_PerformedSwitchesCooldownApart ==
    [][\A t \in Switchers :
          /\ (switch_lock = NoThread /\ switch_lock' = t)
                => (perf_acq = NoIssue \/ now - perf_acq >= SWITCH_COOLDOWN)
          /\ ( /\ pc[t] \in {"sw1_enter", "swm_enter"}
               /\ pc'[t] # pc[t]
               /\ perf_acq # NoIssue
               /\ now - perf_acq < SWITCH_COOLDOWN )
                => /\ pc'[t] = Home(t)
                   /\ switch_lock' = NoThread
                   /\ UNCHANGED <<current_program, last_activity_time,
                                  last_switch_time, test1_restart_count,
                                  test1_process, movepic_process>>
                   /\ UNCHANGED <<t1_alive, t1_windows, mp_alive,
                                  mp_windows>>]_vars

\* A burst of at least two requests is over; one performed a switch and a
\* later one, issued within the cooldown of it, did not.
C1_Witness ==
    /\ burst_reqs >= 2
    /\ burst_perf = 1
    /\ AllReturned
    /\ sw_result \in {"cooldown test1", "cooldown movepic"}
    /\ perf_acq # NoIssue
    /\ perf_acq < last_issue
    /\ last_issue - perf_acq < SWITCH_COOLDOWN

\* C2: a switch request whose target is the current program, when its
\* checks run, returns at once: the foreground state, the restart counter,
\* the process handles, the processes and the windows are unchanged and the
\* lock stays free.
C2_CurrentTargetIsNoOp ==
    [][\A t \in Switchers : \A target \in {"test1", "movepic"} :
          (pc[t] = EnterLabel(target) /\ pc'[t] # pc[t] /\ current_program = target)
             => /\ pc'[t] = Home(t)
                /\ switch_lock' = NoThread
                /\ UNCHANGED <<current_program, last_activity_time,
                               last_switch_time, test1_restart_count,
                               test1_process, movepic_process>>
                /\ UNCHANGED <<t1_alive, t1_windows, mp_alive,
                               mp_windows>>]_vars

\* A request for test1 has just returned because test1 was current (and no
\* cooldown applied).
C2_Witness ==
    /\ sw_result = "no-op"
    /\ switch_lock = NoThread
    /\ current_program = "test1"
    /\ \E t \in {"input", "signal"} : pc[t] = Home(t)

\* C3: after k consecutive failed start-and-detect cycles with no success
\* in between, the restart counter equals k (start-up chain of the main
\* thread, read once restart_test1 has counted the latest failure).
C3_CounterCountsFailedCycles ==
    pc["main"] = "rs_stop" => test1_restart_count = fail_streak

\* C4: when every launch fails, restart attempts cease at the ceiling: once
\* MAX_RESTART_COUNT consecutive cycles have failed, restart_test1 returns
\* without going on to stop and launch test1 again.
C4_RestartsCeaseAtCeiling ==
    pc["main"] = "rs_stop" => fail_streak < MAX_RESTART_COUNT

FsDone == fs.phase = "done"

\* C5, as stated: a found window whose width and height are each within
\* 10 px of the screen's (difference <= 10) makes force_fullscreen return
\* True with no command issued, for force False and True.
C5_Within10IssuesNothing ==
    ( /\ FsDone /\ fs.found /\ fs.geometry = "ok"
      /\ Abs(fs.win_width - fs.screen_width) <= FULLSCREEN_TOLERANCE
      /\ Abs(fs.win_height - fs.screen_height) <= FULLSCREEN_TOLERANCE )
        => (fs.result /\ fs.commands = 0)

\* C5, amended: a found window whose reported width and height each differ
\* from the screen's by less than 10 px makes force_fullscreen return True
\* with no command issued, for force False and True.
C5_WithinLessThan10IssuesNothing ==
    ( /\ FsDone /\ fs.found /\ fs.geometry = "ok"
      /\ Abs(fs.win_width - fs.screen_width) < FULLSCREEN_TOLERANCE
      /\ Abs(fs.win_height - fs.screen_height) < FULLSCREEN_TOLERANCE )
        => (fs.result /\ fs.commands = 0)

\* A forced call returned True without a command for a window 9 px
\* narrower and 9 px taller than the screen.
C5_Witness ==
    /\ FsDone /\ fs.found /\ fs.geometry = "ok" /\ fs.force
    /\ fs.win_width - fs.screen_width = 1 - FULLSCREEN_TOLERANCE
    /\ fs.win_height - fs.screen_height = FULLSCREEN_TOLERANCE - 1
    /\ fs.result /\ fs.commands = 0

\* C6: when test1 is current, the start-up protection is over and the last
\* activity is more than TIMEOUT_SECONDS old, a poll of the idle-timeout
\* watchdog calls switch_to_movepic, once: the poll issues the request and
\* the watchdog does not poll again before the request has returned.
C6_IdlePollRequestsMovepicOnce ==
    [][ /\ ( /\ pc["timeout"] = "to_poll"
             /\ pc'["timeout"] # "to_poll"
             /\ is_running
             /\ current_program = "test1"
             /\ now - start_time > STARTUP_PROTECTION
             /\ now - last_activity_time > TIMEOUT_SECONDS )
              => /\ pc'["timeout"] = "swm_enter"
                 /\ last_issue' = now
                 /\ in_burst'["timeout"]
        /\ (pc["timeout"] = "swm_enter" /\ pc'["timeout"] # "swm_enter")
              => /\ pc'["timeout"] \in {"to_sleep", "sm_popen"}
                 /\ UNCHANGED last_issue ]_vars

\* The watchdog has polled 31 s after the last activity, start-up
\* protection over, and its request for movepic is waiting for the lock.
C6_Witness ==
    /\ pc["timeout"] = "swm_enter"
    /\ current_program = "test1"
    /\ last_issue = now
    /\ now - last_activity_time = TIMEOUT_SECONDS + 1
    /\ now - start_time > STARTUP_PROTECTION

Recovered ==
    /\ current_program = "test1"
    /\ test1_process # None
    /\ test1_process \in t1_alive
    /\ test1_restart_count = 0

\* C7: once test1 has been killed from outside, with launches succeeding
\* and the health watchdog scheduled fairly, the supervisor eventually
\* reaches, and from then on stays in, a state where test1 is the current
\* program, its process is alive and the restart counter is 0.
C7_CrashRecovery == (kills_left = 0) ~> []Recovered

\* test1 was killed, the health watchdog has relaunched it and is back in
\* its polling loop.
C7_Witness ==
    /\ kills_left = 0
    /\ Recovered
    /\ pc["health"] = "h_poll"
    /\ pc["main"] = "run"

\* C8: the signal-file watchdog calls switch_to_test1 once for an
\* appearance of the signal file seen while movepic is current: it calls it
\* when, and only when, it has removed the file with movepic current, and
\* never a second time for an appearance it has already requested for.
C8_SignalFileRequestsOnce ==
    [][ /\ (pc["signal"] # "sw1_enter" /\ pc'["signal"] = "sw1_enter")
              => /\ pc["signal"] = "sg_rm"
                 /\ signal_file /\ ~signal_file'
                 /\ current_program = "movepic"
                 /\ ~sig_requested
        /\ ( /\ pc["signal"] = "sg_rm"
             /\ signal_file /\ ~signal_file'
             /\ current_program = "movepic" )
              => (pc'["signal"] = "sw1_enter" /\ sig_requested') ]_vars

\* The file seen with movepic current is gone and the one request for it
\* has been made.
C8_Witness ==
    /\ pc["signal"] = "sw1_enter"
    /\ sig_requested
    /\ ~signal_file
    /\ current_program = "movepic"

\* C9: in every state from the end of the field assignments of __init__
\* on, current_program is one of the two roles, "test1" or "movepic".
C9_CurrentProgramIsARole == current_program \in {"test1", "movepic"}

\* Both roles have been assigned: a switch has made movepic the current
\* program after start_test1 had made it test1.
C9_Witness ==
    /\ current_program = "movepic"
    /\ sw_result = "to movepic"
    /\ switch_lock = NoThread
    /\ pc["main"] = "run"

\* C10: once the watchdogs have started, current_program,
\* last_activity_time and last_switch_time change only in a step of the
\* thread that holds switch_lock.
C10_ForegroundWritesUnderLock ==
    [][ ( /\ pc["main"] = "run"
          /\ <<current_program, last_activity_time, last_switch_time>>
                # <<current_program', last_activity_time', last_switch_time'>> )
           => /\ switch_lock \in Threads
              /\ pc'[switch_lock] # pc[switch_lock] ]_vars

C12_SwitchCompletes ==
    \A t \in Switchers : (switch_lock = t) ~> (switch_lock # t)

SwitchTarget(t) == IF t = "timeout" THEN "movepic" ELSE "test1"

\* The switch of thread t ends in success with this step.
SwitchSucceeds(t) ==
    /\ switch_lock = t
    /\ switch_lock' = NoThread
    /\ current_program' = SwitchTarget(t)

C14_StopLeavesHandleNone ==
    [][ \A t \in Threads :
          /\ (pc[t] = "rs_stop" /\ pc'[t] = "st_begin")
                => test1_process' = None
          /\ (pc[t] = "s1_stop" /\ pc'[t] = "s1_check")
                => movepic_process' = None ]_vars

\* C15: after terminate_all has returned, neither a test1 nor a movepic
\* process is alive.
C15_TerminateAllLeavesNothingAlive ==
    pc["main"] = "exited" => (t1_alive = {} /\ mp_alive = {})

\* The methods whose output parses as a WxH pair.
Parsable(outputs) == {i \in 1 .. Len(outputs) : ParsesAsPair(outputs[i])}

\* C16: get_screen_resolution returns the pair of the first method whose
\* output parses as WxH, skipping the methods whose output does not, and
\* the default when no output parses.
C16_FirstParsableWins ==
    res.phase = "done"
       => <<res.width, res.height>> =
             IF Parsable(res.outputs) = {} THEN Default
             ELSE PairOf(res.outputs[Min(Parsable(res.outputs))])

\* C17: no failure of an external call escapes a switch or a watchdog
\* iteration: once a step of start_test1 or of a switch has failed and
\* restart_test1 is called, the thread gets back to its watchdog loop and
\* does not hold switch_lock any more.
C17_FailureReturnsToLoop ==
    \A t \in Switchers :
        (pc[t] = "rs_begin") ~> (pc[t] = Home(t) /\ switch_lock # t)

\* The positions inside start_test1, restart_test1 and the stop_test1 they
\* call.
InPrimarySequence(t) ==
    pc[t] \in {"st_begin", "st_popen", "st_pid", "st_wait", "st_finish", "rs_begin",
               "rs_stop"}

\* C18: no two threads are inside a start/stop/restart sequence of test1 at
\* the same time, and no thread is inside one while another thread holds
\* switch_lock.
C18_PrimarySequencesExclusive ==
    \A t \in Threads : \A u \in Threads \ {t} :
        InPrimarySequence(t) => ~InPrimarySequence(u) /\ switch_lock # u

\* C19: a switch request that takes the lock less than SWITCH_COOLDOWN after
\* last_switch_time returns without switching, whatever its target: the
\* current program, the activity and switch times, the restart counter and
\* both handles are unchanged, no process or window is touched and the lock
\* is free again.
C19_CooledDownRequestChangesNothing ==
    [][\A t \in Switchers : \A target \in {"test1", "movepic"} :
          ( /\ pc[t] = EnterLabel(target)
            /\ pc'[t] # pc[t]
            /\ now - last_switch_time < SWITCH_COOLDOWN )
             => /\ pc'[t] = Home(t)
                /\ switch_lock' = NoThread
                /\ UNCHANGED <<current_program, last_activity_time,
                               last_switch_time, test1_restart_count,
                               test1_process, movepic_process, test1_last_pid,
                               test1_last_window_id>>
                /\ UNCHANGED osvars]_vars

\* A request for movepic has just returned because of the cooldown: the
\* switch before it, less than SWITCH_COOLDOWN ago, failed to launch movepic
\* and test1 is still the current program.
C19_Witness ==
    /\ sw_result = "cooldown movepic"
    /\ pc["timeout"] = Home("timeout")
    /\ switch_lock = NoThread
    /\ current_program = "test1"
    /\ now - last_switch_time < SWITCH_COOLDOWN

\* C20: an input event that the listener receives less than
\* STARTUP_PROTECTION after the supervisor started is ignored, whatever its
\* type and value and whatever the current program: last_activity_time is
\* unchanged and no switch is requested.
C20_ProtectedEventsIgnored ==
    [][( /\ pc["input"] = "in_listen"
         /\ \A t \in Threads \ {"input"} : pc'[t] = pc[t]
         /\ now - start_time < STARTUP_PROTECTION )
          => /\ last_activity_time' = last_activity_time
             /\ pc'["input"] = "in_listen"
             /\ last_issue' = last_issue]_vars

\* The listener is receiving events inside the start-up protection, at a
\* time later than the recorded activity (an event that counted would move
\* last_activity_time).
C20_Witness ==
    /\ pc["input"] = "in_listen"
    /\ is_running
    /\ now - start_time < STARTUP_PROTECTION
    /\ now > last_activity_time
    /\ current_program = "test1"

\* C21: after the start-up protection the listener takes an event for
\* activity iff it is a key-down or a relative/absolute movement of more
\* than DEADZONE; on activity it sets last_activity_time and requests
\* switch_to_test1 iff movepic is current; any other event changes nothing.
C21_ActivityIffKeyDownOrMovement ==
    [][\A e \in Events :
          ( /\ listen_device_input("input", e[1], e[2])
            /\ is_running
            /\ now - start_time >= STARTUP_PROTECTION )
             => IF \/ e[1] = "EV_KEY" /\ e[2] = 1
                   \/ e[1] \in {"EV_REL", "EV_ABS"} /\ (e[2] > DEADZONE \/ e[2] < -DEADZONE)
                THEN /\ last_activity_time' = now
                     /\ (pc'["input"] = "sw1_enter")
                           <=> (current_program = "movepic")
                     /\ current_program # "movepic"
                           => UNCHANGED <<pc, last_issue, burst_reqs>>
                ELSE UNCHANGED vars]_vars

\* An event after the start-up protection counted as activity while movepic
\* was current: the time is recorded and switch_to_test1 is called.
C21_Witness ==
    /\ pc["input"] = "sw1_enter"
    /\ current_program = "movepic"
    /\ last_activity_time = now
    /\ last_issue = now
    /\ now - start_time >= STARTUP_PROTECTION

\* C22: the idle-timeout watchdog calls switch_to_movepic only from a poll
\* at which test1 is current, more than STARTUP_PROTECTION has passed since
\* the start and more than TIMEOUT_SECONDS since the last activity; it never
\* calls switch_to_test1.
C22_TimeoutRequestsOnlyWhenIdle ==
    [][ /\ (pc'["timeout"] = "swm_enter" /\ pc["timeout"] # "swm_enter")
              => /\ pc["timeout"] = "to_poll"
                 /\ current_program = "test1"
                 /\ now - start_time > STARTUP_PROTECTION
                 /\ now - last_activity_time > TIMEOUT_SECONDS
        /\ pc'["timeout"] \notin {"sw1_enter", "s1_stop", "s1_check",
                                  "s1_verify", "sw_done"} ]_vars

\* The watchdog's request for movepic is waiting for the lock, issued at a
\* poll later than the first one that could issue it.
C22_Witness ==
    /\ pc["timeout"] = "swm_enter"
    /\ in_burst["timeout"]
    /\ last_issue = now
    /\ current_program = "test1"
    /\ now - last_activity_time > TIMEOUT_SECONDS + 1

\* C23: while test1 is current and alive, a poll of the health watchdog
\* that finds the pid of the process different from the recorded pid, or
\* the window id different from the recorded one, records the new value and
\* activates the window.
C23_ChurnReactivates ==
    [][( /\ pc["health"] = "h_poll"
         /\ \A t \in Threads \ {"health"} : pc'[t] = pc[t]
         /\ UNCHANGED <<now, t1_alive, t1_windows>>
         /\ <<test1_last_pid, test1_last_window_id>>' #
               <<test1_last_pid, test1_last_window_id>>
         /\ is_running
         /\ current_program = "test1"
         /\ is_test1_alive
         /\ PidChurn \/ WindowChurn )
          => /\ test1_last_pid' = test1_process
             /\ WindowChurn
                   => test1_last_window_id' = find_window_id(t1_windows)
             /\ pc'["health"] = "h_activate"]_vars

\* C24: wait_for_window ends within its timeout: it polls at most WaitPolls
\* times; a poll within the timeout returns True when it finds the window
\* and False when it finds the process exited, a poll past the timeout
\* returns False, and no other poll returns; after a False with the process
\* exited start_test1 calls restart_test1.
C24_WaitEndsWithinTimeout ==
    [][(pc["main"] = "st_wait" /\ ww' # ww)
          => IF ~ww.returned
             THEN /\ ww'.elapsed <= WAIT_TIMEOUT * POLLS_PER_SECOND
                  /\ ww'.returned
                        <=> \/ ww.elapsed >= WAIT_TIMEOUT * POLLS_PER_SECOND
                            \/ t1_windows # {}
                            \/ test1_process # None /\ test1_process \notin t1_alive
                  /\ ww'.returned
                        => ww'.result
                              = /\ ww.elapsed < WAIT_TIMEOUT * POLLS_PER_SECOND
                                /\ t1_windows # {}
                  /\ UNCHANGED pc
             ELSE (~ww.result /\ test1_process \notin t1_alive)
                     => pc'["main"] = "rs_begin"]_vars

\* wait_for_window has returned False before its timeout because the
\* process had exited.
C24_Witness ==
    /\ pc["main"] = "st_wait"
    /\ ww.returned
    /\ ~ww.result
    /\ ww.elapsed > 0
    /\ ww.elapsed < WaitPolls
    /\ t1_windows = {}
    /\ test1_process # None
    /\ test1_process \notin t1_alive

\* C25: whenever wait_for_window returns False for a launch of test1, the
\* process exited or still running, start_test1 calls restart_test1 and does
\* not go on to its success path.
C25_UndetectedWindowRestarts ==
    [][( /\ pc["main"] = "st_wait"
         /\ ww.returned
         /\ ~ww.result
         /\ pc'["main"] # "st_wait" )
          => pc'["main"] = "rs_begin"]_vars

\* C26: in a switch to test1 that found the process alive and has
\* activated, fullscreened and woken the window, the re-verification
\* decides: a window that is absent then makes the switch call restart_test1
\* without assigning current_program, last_activity_time or
\* last_switch_time; a window that is present makes it succeed.
C26_ReverifyDecides ==
    [][\A t \in {"input", "signal"} :
          (pc[t] = "s1_verify" /\ pc'[t] # "s1_verify")
             => IF t1_windows = {}
                THEN /\ pc'[t] = "s1_restart"
                     /\ switch_lock' = t
                     /\ UNCHANGED <<current_program, last_activity_time,
                                    last_switch_time>>
                ELSE /\ pc'[t] = Home(t)
                     /\ current_program' = "test1"]_vars

\* The re-verification of a switch to test1 has just found the window
\* absent: restart_test1 is about to be called under the lock and movepic
\* is still the current program.
C26_Witness ==
    /\ \E t \in {"input", "signal"} : pc[t] = "s1_restart" /\ switch_lock = t
    /\ current_program = "movepic"
    /\ t1_windows = {}

\* The positions inside the with block of switch_to_test1 and
\* switch_to_movepic, the functions they call included.
InSwitchBody(t) ==
    pc[t] \in {"s1_stop", "s1_check", "s1_verify", "s1_restart", "sw_done",
               "sm_popen", "sm_wait", "st_begin", "st_popen", "st_pid",
               "st_wait", "st_finish", "rs_begin", "rs_stop"}

\* C27: switch requests serialize on switch_lock: at most one thread is
\* inside the body of switch_to_test1 or switch_to_movepic, it is the one
\* that holds the lock, and a thread that has returned from a switch does
\* not hold it.
C27_SwitchesSerialize ==
    /\ Cardinality({t \in Switchers : InSwitchBody(t)}) <= 1
    /\ \A t \in Switchers : InSwitchBody(t) <=> switch_lock = t

\* The listener's switch is in progress while the signal-file watchdog has
\* called switch_to_test1 and waits for the lock.
C27_Witness ==
    /\ switch_lock = "input"
    /\ InSwitchBody("input")
    /\ pc["signal"] = "sw1_enter"
    /\ in_burst["signal"]

\* C28: start_test1 resets the restart counter on entry, so when one thread
\* at a time runs start_test1 / restart_test1 the counter is always 0 or 1,
\* it is 0 whenever restart_test1 is entered, and the test against
\* MAX_RESTART_COUNT in restart_test1 is never true.
C28_CounterIsZeroOrOne ==
    /\ test1_restart_count \in {0, 1}
    /\ \A t \in Threads :
          pc[t] = "rs_begin"
             => /\ test1_restart_count = 0
                /\ test1_restart_count + 1 < MAX_RESTART_COUNT

\* MAX_RESTART_COUNT start-and-detect cycles in a row have failed at
\* start-up, the counter is 1 and the next restart is under way.
C28_Witness ==
    /\ fail_streak = MAX_RESTART_COUNT
    /\ test1_restart_count = 1
    /\ pc["main"] = "rs_stop"

\* C29: whenever test1 is the current program and no switch is in
\* progress, no movepic process that the supervisor launched is alive and
\* the movepic handle is None.
C29_NoMovepicWhileTest1Current ==
    (current_program = "test1" /\ switch_lock = NoThread)
       => (movepic_process = None /\ mp_alive = {})

\* C30: at most one test1 process launched by the supervisor is alive at
\* any time, and it is the one test1_process refers to.
C30_OnlyTheHandleIsAlive ==
    /\ Cardinality(t1_alive) <= 1
    /\ \A p \in t1_alive : test1_process = p

\* C31: once shutdown has begun and terminate_all has killed a supervised
\* program, no process of that program is launched any more by a switch or
\* a restart that was in flight.
C31_NoLaunchAfterTerminateAll ==
    [][ /\ (~is_running /\ pc["main"] \in {"term_test1", "exited"})
              => mp_alive' \subseteq mp_alive
        /\ (~is_running /\ pc["main"] = "exited")
              => t1_alive' \subseteq t1_alive ]_vars

\* C32: every switch to test1 that has passed the cooldown and no-op checks
\* and returns, on the direct path or through start_test1 / restart_test1,
\* returns with test1 as the current program.
C32_ReturnsWithTest1Current ==
    [][ \A t \in {"input", "signal"} :
            (pc[t] \in {"s1_verify", "sw_done"} /\ pc'[t] = Home(t))
                => current_program' = "test1" ]_vars

\* A switch to test1 that killed movepic and went through restart_test1 has
\* returned, and test1 is current.
C32_Witness ==
    /\ sw_result = "to test1"
    /\ switch_lock = NoThread
    /\ \A t \in Switchers : pc[t] = Home(t)
    /\ current_program = "test1"
    /\ movepic_process = None
    /\ test1_process # None
    /\ test1_process = test1_last_pid
    /\ test1_restart_count = 1
    /\ last_switch_time = perf_acq

\* C33: an appearance of the signal file that the signal-file watchdog has
\* seen and deleted while movepic was current leads to test1 being current,
\* also within SWITCH_COOLDOWN of the previous switch: the request made for
\* it never comes back from the checks of switch_to_test1 with movepic
\* still current, the file gone and nothing left to ask again.
C33_ObservedSignalIsNotDropped ==
    [][ (pc["signal"] = "sw1_enter" /\ pc'["signal"] = "sg_poll")
            => current_program' = "test1" ]_vars

\* C34: every switch request that has passed the cooldown and no-op checks
\* sets last_switch_time, on the step on which it returns and releases the
\* lock, to the time it read when it took the lock, whether the switch
\* succeeded or not (a launch of movepic that raises included);
\* last_switch_time is written on no other step, and it never decreases.
C34_SwitchTimeIsAcquisitionTime ==
    [][ /\ \A t \in Switchers :
              (switch_lock = t /\ switch_lock' # t)
                 => /\ last_switch_time' = current_time[t]
                    /\ last_switch_time' = perf_acq
        /\ last_switch_time' # last_switch_time
              => \E t \in Switchers : switch_lock = t /\ switch_lock' = NoThread
        /\ last_switch_time' >= last_switch_time ]_vars

\* A switch to movepic whose launch raised has returned: test1 is still
\* current, and the switch time is the time the lock was taken, now past.
C34_Witness ==
    /\ sw_result = "to movepic"
    /\ switch_lock = NoThread
    /\ pc["timeout"] = "to_sleep"
    /\ current_program = "test1"
    /\ movepic_process = None
    /\ last_switch_time = perf_acq
    /\ last_switch_time > 0
    /\ last_switch_time < now

\* C35: a switch to movepic makes movepic the current program if, and only
\* if, the launch of movepic did not raise, whether or not movepic's window
\* appeared during the wait; its steps leave last_activity_time and the
\* handle of test1 as they were.
C35_MovepicCurrentIffLaunched ==
    [][ /\ (pc["timeout"] = "sm_wait" /\ pc'["timeout"] # "sm_wait")
              => current_program' = "movepic"
        /\ (pc["timeout"] = "sm_popen" /\ pc'["timeout"] = "to_sleep")
              => (UNCHANGED current_program /\ current_program # "movepic")
        /\ ( /\ pc["timeout"] \in {"swm_enter", "sm_popen", "sm_wait"}
             /\ pc'["timeout"] # pc["timeout"] )
              => UNCHANGED <<last_activity_time, test1_process>> ]_vars

\* A switch to movepic has returned with movepic launched and alive but
\* without a window: movepic is the current program.
C35_Witness ==
    /\ sw_result = "to movepic"
    /\ switch_lock = NoThread
    /\ pc["timeout"] = "to_sleep"
    /\ current_program = "movepic"
    /\ movepic_process \in mp_alive
    /\ mp_windows = {}
    /\ test1_process # None

\* The labels of __init__: the first start_test1 with the restarts it
\* triggers, up to the call of start_monitors.
InInit == InPrimarySequence("main") \/ pc["main"] = "init_monitors"

\* C36: no watchdog thread runs before the first launch sequence of test1
\* has returned: while __init__ is in start_test1 or in a restart that it
\* triggered, and until it calls start_monitors, no other thread has been
\* started, nothing holds the switch lock and no switch has been requested.
C36_NoWatchdogBeforeFirstLaunchReturns ==
    InInit => /\ \A t \in Threads \ {"main"} : pc[t] = "off"
              /\ switch_lock = NoThread
              /\ sw_result = "none"

\* The first launch has failed and __init__ is in the restart it triggered,
\* with no watchdog started.
C36_Witness ==
    /\ pc["main"] = "st_wait"
    /\ fail_streak >= 1
    /\ test1_process \in t1_alive
    /\ \A t \in Threads \ {"main"} : pc[t] = "off"

\* The output-monitor threads of the GPIO script that are running.
GpioMonitors == gpio.polling + gpio.restarting

\* C37: at most one output-monitor thread of the GPIO script is running at
\* any time, also after the script has exited and a monitor thread has
\* started it again through start_gpio_script.
C37_AtMostOneGpioMonitor == GpioMonitors <= 1

====
